---- MODULE Spec2Model ----
(***************************************************************************)
(* A model of mekano's AtomFactory (AtomFactory.py) and of its line        *)
(* oriented state machine parsers (IO.py).                                 *)
(*                                                                         *)
(* The specifications share the variables:                                 *)
(*   SpecAF     a client holding two AtomFactory references, oldAF and     *)
(*              newAF, and calling the factory's methods on them;          *)
(*   SpecTrec   TrecParser.parse() over a file of lines;                   *)
(*   SpecSMART  SMARTParser.parse() over a file of lines;                  *)
(*   SpecAV     convertAtomVector between the two factories;               *)
(*   SpecTrecDocs, SpecSMARTDocs, SpecParsers   the parsers over files of  *)
(*              two documents, apart and together.                         *)
(***************************************************************************)
EXTENDS Integers, Sequences, FiniteSets, TLC

VARIABLES
    heap,            \* AtomFactory part: reference -> the AtomFactory it denotes
    aliased,         \* AtomFactory part: both references denote one object
    ret,             \* AtomFactory part: the last call and its outcome
    fin,             \* parser part: the file, a sequence of lines
    pos,             \* number of lines of fin the for loop has taken
    line,            \* parse()'s local variable line (Unbound before the 1st)
    state,           \* parse()'s local variable state
    pc,              \* where parse() is: "loop", "broke", "returned", "raised"
    self,            \* the parser object's fields: docid, textlines, ...
    calls,           \* the callback's invocations so far, in order
    stopped,         \* a handler returned False and the loop was left by break
    finishes         \* the arguments onFinish was invoked with, in order

afvars == <<heap, aliased, ret>>
pvars == <<fin, pos, line, state, pc, self, calls, stopped, finishes>>
vars == <<heap, aliased, ret, fin, pos, line, state, pc, self, calls, stopped,
          finishes>>

(***************************************************************************)
(* Bounds                                                                  *)
(***************************************************************************)
\* get_object / __call__ / convertAtom are tried with atoms -MaxProbe..MaxProbe
MaxProbe == 3

\* a TREC file has at most MaxLines lines
MaxLines == 6

\* a document of a file of two documents has at most MaxBody lines of text
MaxBody == 2

\* a SMART file has at most MaxSMARTLines lines
MaxSMARTLines == 7

\* the hashable objects a client hands to a factory
Objects == {"a", "x", "b"}

\* the two references the client holds
Refs == {"oldAF", "newAF"}

AtomArgs == (0 - MaxProbe)..MaxProbe

(***************************************************************************)
(* AtomFactory                                                             *)
(***************************************************************************)
\* AtomFactory.__init__: an empty bi-map, unlocked.  (self.name is only
\* printed by __repr__ and is left out.)
NewAtomFactory ==
    [obj_to_atom |-> <<>>, atom_to_obj |-> <<>>, locked |-> FALSE]

\* the outcome of a call: the factory after it, the exception it raised
\* ("none" if it returned) and the value it returned
Outcome(af, err, val) == [af |-> af, err |-> err, val |-> val]

\* obj in self.obj_to_atom
Contains(af, obj) == obj \in DOMAIN af.obj_to_atom

\* an off-by-one numbering, a = len(self.atom_to_obj)
GetItemFromZero(af, obj) ==
    IF Contains(af, obj)
    THEN Outcome(af, "none", af.obj_to_atom[obj])
    ELSE IF af.locked
    THEN Outcome(af, "KeyError", 0)
    ELSE LET a == Len(af.atom_to_obj)
         IN  Outcome([af EXCEPT !.obj_to_atom = (obj :> a) @@ @,
                                !.atom_to_obj = Append(@, obj)],
                     "none", a)

\* a lookup that forgets the locked flag
GetItemIgnoringLock(af, obj) ==
    IF Contains(af, obj)
    THEN Outcome(af, "none", af.obj_to_atom[obj])
    ELSE LET a == Len(af.atom_to_obj) + 1
         IN  Outcome([af EXCEPT !.obj_to_atom = (obj :> a) @@ @,
                                !.atom_to_obj = Append(@, obj)],
                     "none", a)

\* an insertion at the front of the list, which renumbers the objects
\* already known
GetItemPrepending(af, obj) ==
    IF Contains(af, obj)
    THEN Outcome(af, "none", af.obj_to_atom[obj])
    ELSE IF af.locked
    THEN Outcome(af, "KeyError", 0)
    ELSE Outcome([af EXCEPT !.obj_to_atom =
                                (obj :> 1) @@ [o \in DOMAIN @ |-> @[o] + 1],
                            !.atom_to_obj = <<obj>> \o @],
                 "none", 1)

\* AtomFactory.__getitem__: self[obj]
GetItem(af, obj) ==
    IF Contains(af, obj)
    THEN Outcome(af, "none", af.obj_to_atom[obj])
    ELSE IF af.locked
    THEN Outcome(af, "KeyError", 0)
    ELSE LET a == Len(af.atom_to_obj) + 1
         IN  Outcome([af EXCEPT !.obj_to_atom = (obj :> a) @@ @,
                                !.atom_to_obj = Append(@, obj)],
                     "none", a)

\* Python's list indexing lst[i]: a negative i counts from the end
\* (lst[-1] is the last element); IndexError outside -len..len-1.
\* The result is <<err, element>>, the element "" on IndexError.
ListIndex(lst, i) ==
    IF 0 <= i /\ i < Len(lst) THEN <<"none", lst[i + 1]>>
    ELSE IF i < 0 /\ 0 - Len(lst) <= i THEN <<"none", lst[Len(lst) + i + 1]>>
    ELSE <<"IndexError", "">>

\* AtomFactory.get_object: self.atom_to_obj[a-1]; the value is the object
GetObject(af, a) ==
    LET r == ListIndex(af.atom_to_obj, a - 1)
    IN  Outcome(af, r[1], r[2])

\* AtomFactory.__call__, af(a): self.atom_to_obj[a-1]
Call__(af, a) ==
    LET r == ListIndex(af.atom_to_obj, a - 1)
    IN  Outcome(af, r[1], r[2])

\* AtomFactory.__len__
LenAF(af) == Len(af.atom_to_obj)

\* AtomFactory.lock
Lock(af) == [af EXCEPT !.locked = TRUE]

\* the loop of remove: new_af[obj] for the objects of lst[i..] not in objects
RECURSIVE RemoveLoop(_, _, _, _)
RemoveLoop(lst, i, objects, new_af) ==
    IF i > Len(lst) THEN new_af
    ELSE IF lst[i] \notin objects
    THEN RemoveLoop(lst, i + 1, objects, GetItem(new_af, lst[i]).af)
    ELSE RemoveLoop(lst, i + 1, objects, new_af)

\* a remove that deletes from a copy and keeps the old atom numbers
RemoveKeepingAtoms(af, objects) ==
    LET kept == SelectSeq(af.atom_to_obj, LAMBDA o : o \notin objects)
    IN  [obj_to_atom |-> [o \in {kept[k] : k \in 1..Len(kept)} |-> af.obj_to_atom[o]],
         atom_to_obj |-> kept,
         locked |-> FALSE]

\* AtomFactory.remove: the new factory it returns
Remove(af, objects) == RemoveLoop(af.atom_to_obj, 1, objects, NewAtomFactory)

\* a convertAtom without the membership test: lookup-or-insert in newAF
ConvertAtomInserting(old, new, atom) ==
    LET o == GetObject(old, atom)
    IN  IF o.err # "none" THEN Outcome(new, o.err, 0)
        ELSE GetItem(new, o.val)

\* convertAtom(oldAF, newAF, atom)
ConvertAtom(old, new, atom) ==
    LET o == GetObject(old, atom)
    IN  IF o.err # "none" THEN Outcome(new, o.err, 0)
        ELSE IF ~Contains(new, o.val) THEN Outcome(new, "IllegalOperation", 0)
        ELSE GetItem(new, o.val)

\* the record of a call: the method, the reference it was called on, the
\* reference its result was bound to, its arguments, the exception and the
\* value.  Unused fields hold "", 0, {}.
Call(op, r, dst, obj, atom, objs, err, val) ==
    [op |-> op, ref |-> r, dst |-> dst, obj |-> obj, atom |-> atom,
     objs |-> objs, err |-> err, val |-> val]

\* the store after the object reference r denotes becomes af: the client's
\* references are names for objects, so when both denote one object
\* (aliased) the change shows through both
Store(r, af) ==
    IF aliased THEN [x \in Refs |-> af] ELSE [heap EXCEPT ![r] = af]

\* the store after reference dst is bound to the newly made object af
Bind(dst, af) == [heap EXCEPT ![dst] = af]

\* r = AtomFactory()
DoNew(r) ==
    /\ heap' = Bind(r, NewAtomFactory)
    /\ aliased' = FALSE
    /\ ret' = Call("new", r, r, "", 0, {}, "none", 0)
    /\ UNCHANGED pvars

\* dst = r: both references now denote r's factory
DoAssign(r, dst) ==
    /\ r # dst
    /\ heap' = [heap EXCEPT ![dst] = heap[r]]
    /\ aliased' = TRUE
    /\ ret' = Call("assign", r, dst, "", 0, {}, "none", 0)
    /\ UNCHANGED pvars

\* heap[r][obj]
DoGetItem(r, obj) ==
    LET out == GetItem(heap[r], obj)
    IN  /\ heap' = Store(r, out.af)
        /\ ret' = Call("getitem", r, r, obj, 0, {}, out.err, out.val)
        /\ UNCHANGED <<aliased, pvars>>

\* heap[r].get_object(a)
DoGetObject(r, a) ==
    LET out == GetObject(heap[r], a)
    IN  /\ ret' = Call("get_object", r, r, out.val, a, {}, out.err, 0)
        /\ UNCHANGED <<heap, aliased, pvars>>

\* heap[r](a)
DoCall(r, a) ==
    LET out == Call__(heap[r], a)
    IN  /\ ret' = Call("call", r, r, out.val, a, {}, out.err, 0)
        /\ UNCHANGED <<heap, aliased, pvars>>

\* len(heap[r])
DoLen(r) ==
    /\ ret' = Call("len", r, r, "", 0, {}, "none", LenAF(heap[r]))
    /\ UNCHANGED <<heap, aliased, pvars>>

\* obj in heap[r]
DoContains(r, obj) ==
    /\ ret' = Call("contains", r, r, obj, 0, {}, "none",
                   IF Contains(heap[r], obj) THEN 1 ELSE 0)
    /\ UNCHANGED <<heap, aliased, pvars>>

\* heap[r].lock()
DoLock(r) ==
    /\ heap' = Store(r, Lock(heap[r]))
    /\ ret' = Call("lock", r, r, "", 0, {}, "none", 0)
    /\ UNCHANGED <<aliased, pvars>>

\* a remove that hands back the receiver itself when it removes nothing
DoRemoveReturningSelf(r, dst, objects) ==
    /\ r # dst
    /\ LET new_af == Remove(heap[r], objects)
       IN  IF new_af.atom_to_obj = heap[r].atom_to_obj
           THEN heap' = Bind(dst, heap[r]) /\ aliased' = TRUE
           ELSE heap' = Bind(dst, new_af) /\ aliased' = FALSE
    /\ ret' = Call("remove", r, dst, "", 0, objects, "none", 0)
    /\ UNCHANGED pvars

\* dst = heap[r].remove(objects), dst the client's other reference
DoRemove(r, dst, objects) ==
    /\ r # dst
    /\ heap' = Bind(dst, Remove(heap[r], objects))
    /\ aliased' = FALSE
    /\ ret' = Call("remove", r, dst, "", 0, objects, "none", 0)
    /\ UNCHANGED pvars

\* convertAtom(heap[old], heap[new], atom)
DoConvertAtom(old, new, atom) ==
    LET out == ConvertAtom(heap[old], heap[new], atom)
    IN  /\ heap' = Store(new, out.af)
        /\ ret' = Call("convertAtom", old, new, "", atom, {}, out.err, out.val)
        /\ UNCHANGED <<aliased, pvars>>

\* the parser variables, unused by SpecAF
ParserIdle ==
    /\ fin = <<>> /\ pos = 0 /\ line = <<>> /\ state = "" /\ pc = "idle"
    /\ self = <<>> /\ calls = <<>> /\ stopped = FALSE /\ finishes = <<>>

InitAF ==
    /\ heap = [r \in Refs |-> NewAtomFactory]
    /\ aliased = FALSE
    /\ ret = Call("init", "oldAF", "oldAF", "", 0, {}, "none", 0)
    /\ ParserIdle

NextAF ==
    \/ \E r \in Refs : DoNew(r)
    \/ \E r \in Refs, dst \in Refs : DoAssign(r, dst)
    \/ \E r \in Refs, obj \in Objects : DoGetItem(r, obj)
    \/ \E r \in Refs, a \in AtomArgs : DoGetObject(r, a)
    \/ \E r \in Refs, a \in AtomArgs : DoCall(r, a)
    \/ \E r \in Refs : DoLen(r)
    \/ \E r \in Refs, obj \in Objects : DoContains(r, obj)
    \/ \E r \in Refs : DoLock(r)
    \/ \E r \in Refs, dst \in Refs, objects \in SUBSET Objects :
           DoRemove(r, dst, objects)
    \/ \E old \in Refs, new \in Refs, a \in AtomArgs : DoConvertAtom(old, new, a)

SpecAF == InitAF /\ [][NextAF]_vars

(***************************************************************************)
(* convertAtomVector.  An AtomVector is a mapping from atoms to values     *)
(* with a dictionary's interface: AtomVector(name) is empty, iteritems()   *)
(* yields every (atom, value) pair once, in an order the caller cannot     *)
(* choose, and new_av[a] = v sets or replaces the value at a.              *)
(***************************************************************************)
\* AtomVector(av.name): the empty vector
NewAtomVector == <<>>

\* new_av[a] = v
AVSetItem(new_av, a, v) == (a :> v) @@ new_av

\* the sequences that name every element of the set S once
RECURSIVE Orders(_)
Orders(S) ==
    IF S = {} THEN {<<>>}
    ELSE UNION { { <<a>> \o s : s \in Orders(S \ {a}) } : a \in S }

\* the orders in which iteritems() may yield the pairs of av
Iteritems(av) ==
    { [i \in 1..Len(order) |-> <<order[i], av[order[i]]>>] :
        order \in Orders(DOMAIN av) }

\* the keys a client's vector may have: each is an atom of oldAF or lies
\* beyond its size
AVKeys == 1..MaxProbe

\* the vectors a client hands over: the value at a key is a pair naming
\* the key, so that a value found in a result tells which entry it was
AtomVectors == { [a \in K |-> <<"v", a>>] : K \in SUBSET AVKeys }

\* one pass of the loop that lets IllegalOperation escape
ConvertItemUncaught(old, new, new_av, a, v) ==
    LET out == ConvertAtom(old, new, a)
    IN  IF out.err = "none"
        THEN Outcome(out.af, "none", AVSetItem(new_av, out.val, v))
        ELSE Outcome(out.af, out.err, new_av)

\* one pass of the loop of convertAtomVector, for the pair (a, v): the
\* value is new_av after it; IllegalOperation is caught, any other
\* exception of convertAtom is not
ConvertItem(old, new, new_av, a, v) ==
    LET out == ConvertAtom(old, new, a)
    IN  IF out.err = "none"
        THEN Outcome(out.af, "none", AVSetItem(new_av, out.val, v))
        ELSE IF out.err = "IllegalOperation"
        THEN Outcome(out.af, "none", new_av)
        ELSE Outcome(out.af, out.err, new_av)

\* the loop of convertAtomVector from the i-th pair on
RECURSIVE ConvertAtomVectorLoop(_, _, _, _, _)
ConvertAtomVectorLoop(old, new, items, i, new_av) ==
    IF i > Len(items) THEN Outcome(new, "none", new_av)
    ELSE LET out == ConvertItem(old, new, new_av, items[i][1], items[i][2])
         IN  IF out.err # "none" THEN Outcome(out.af, out.err, NewAtomVector)
             ELSE ConvertAtomVectorLoop(old, out.af, items, i + 1, out.val)

\* convertAtomVector(oldAF, newAF, av), items the pairs of av in the order
\* iteritems() yields them; the value is new_av
ConvertAtomVector(old, new, items) ==
    ConvertAtomVectorLoop(old, new, items, 1, NewAtomVector)

\* convertAtomVector(oldAF, newAF, av) with the client's two references
DoConvertAtomVector(old, new, av) ==
    \E items \in Iteritems(av) :
        LET out == ConvertAtomVector(heap[old], heap[new], items)
        IN  /\ heap' = Store(new, out.af)
            /\ ret' = Call("convertAtomVector", old, new, "", 0, av,
                           out.err, out.val)
            /\ UNCHANGED <<aliased, pvars>>

\* a client that fills and locks its two factories and translates vectors
\* from one to the other
NextAV ==
    \/ \E r \in Refs, obj \in Objects : DoGetItem(r, obj)
    \/ \E r \in Refs : DoLock(r)
    \/ \E av \in AtomVectors : DoConvertAtomVector("oldAF", "newAF", av)

SpecAV == InitAF /\ [][NextAV]_vars

(***************************************************************************)
(* Python strings and values.  A string is a sequence of one-character     *)
(* strings; a line of a file ends with NL, the last one maybe not.         *)
(***************************************************************************)
NL == "\n"

\* Python's None where a string, a list of strings or a set is expected,
\* and the value of a local variable that was never assigned
NoneStr == <<"None">>
NoneList == <<NoneStr>>
NoneSet == {NoneStr}
Unbound == <<"Unbound">>

\* what a handler returns besides a state name
PyNone == "None"
PyFalse == "False"

\* what the callback may return: False, None (it returns nothing), 0
CallbackReturns == {"False", "None", "0"}

\* s.startswith(prefix)
StartsWith(s, prefix) ==
    Len(s) >= Len(prefix) /\ SubSeq(s, 1, Len(prefix)) = prefix

\* an index of a slice, as Python normalises it: a negative one counts from
\* the end, and the result is clamped to 0..len
SliceIndex(n, i) ==
    LET k == IF i < 0 THEN i + n ELSE i
    IN  IF k < 0 THEN 0 ELSE IF k > n THEN n ELSE k

\* s[i:j]
PySlice(s, i, j) ==
    LET lo == SliceIndex(Len(s), i)
        hi == SliceIndex(Len(s), j)
    IN  IF lo < hi THEN SubSeq(s, lo + 1, hi) ELSE <<>>

\* s[i:]
PyFrom(s, i) == PySlice(s, i, Len(s))

\* s.find(ch, start): the lowest 0-based index >= start of ch, or -1
RECURSIVE Find(_, _, _)
Find(s, ch, start) ==
    IF start >= Len(s) THEN 0 - 1
    ELSE IF s[start + 1] = ch THEN start
    ELSE Find(s, ch, start + 1)

Whitespace == {" ", NL, "\t", "\r"}

RECURSIVE LStrip(_)
LStrip(s) ==
    IF s # <<>> /\ Head(s) \in Whitespace THEN LStrip(Tail(s)) ELSE s

RECURSIVE RStrip(_)
RStrip(s) ==
    IF s # <<>> /\ s[Len(s)] \in Whitespace
    THEN RStrip(SubSeq(s, 1, Len(s) - 1)) ELSE s

\* s.strip()
Strip(s) == RStrip(LStrip(s))

\* "".join(lst)
RECURSIVE Join(_)
Join(lst) == IF lst = <<>> THEN <<>> ELSE Head(lst) \o Join(Tail(lst))

\* the end (exclusive, 1-based) of the run of non-space characters at i
RECURSIVE RunEnd(_, _)
RunEnd(s, i) ==
    IF i > Len(s) \/ s[i] = " " THEN i ELSE RunEnd(s, i + 1)

\* [c.group(1) for c in re.compile("([^ ]+) 1").finditer(s)], scanning from
\* the 1-based position i: a match at i is the whole run of non-space
\* characters from i followed by " 1" (a shorter run is followed by a
\* non-space character, so backtracking finds nothing); the search goes on
\* after the match, or at i + 1 when nothing matches at i
RECURSIVE FindCats(_, _)
FindCats(s, i) ==
    IF i > Len(s) THEN <<>>
    ELSE LET j == RunEnd(s, i)
         IN  IF j > i /\ j + 1 <= Len(s) /\ s[j] = " " /\ s[j + 1] = "1"
             THEN <<SubSeq(s, i, j - 1)>> \o FindCats(s, j + 2)
             ELSE FindCats(s, i + 1)

(***************************************************************************)
(* StateMachineFileParser                                                  *)
(***************************************************************************)
\* what a handler leaves: the parser's fields, the value it returns and
\* the callback's invocations
Handled(slf, newstate, cs) == [self |-> slf, newstate |-> newstate, calls |-> cs]

\* one pass of parse()'s for loop with the handler's outcome h: the next
\* line is taken, the handler runs, False breaks, a state name is a
\* transition, None stays
Dispatch(h) ==
    /\ pc = "loop"
    /\ pos < Len(fin)
    /\ pos' = pos + 1
    /\ line' = fin[pos + 1]
    /\ self' = h.self
    /\ calls' = h.calls
    /\ IF h.newstate = PyFalse
       THEN pc' = "broke" /\ stopped' = TRUE /\ state' = state
       ELSE /\ pc' = "loop"
            /\ stopped' = stopped
            /\ state' = IF h.newstate # PyNone THEN h.newstate ELSE state
    /\ UNCHANGED <<fin, finishes, afvars>>

\* the statement after the loop, self.onFinish(line), reached when the
\* file is exhausted and after a break alike; h is what onFinish leaves.
\* line is unbound if the loop body never ran: an UnboundLocalError
AfterLoop(h) ==
    /\ \/ pc = "loop" /\ pos = Len(fin)
       \/ pc = "broke"
    /\ IF line = Unbound
       THEN pc' = "raised" /\ UNCHANGED <<self, calls, finishes>>
       ELSE /\ pc' = "returned"
            /\ finishes' = Append(finishes, line)
            /\ self' = h.self
            /\ calls' = h.calls
    /\ UNCHANGED <<fin, pos, line, state, stopped, afvars>>

\* StateMachineFileParser.onFinish: pass
OnFinish(slf, ln, cs, r) == Handled(slf, PyNone, cs)

(***************************************************************************)
(* TrecParser                                                              *)
(***************************************************************************)
DOCNO == <<"<", "D", "O", "C", "N", "O", ">">>
TEXT == <<"<", "T", "E", "X", "T", ">">>
ETEXT == <<"<", "/", "T", "E", "X", "T", ">">>

\* TrecParser.__init__
NewTrecParser == [docid |-> NoneStr, textlines |-> <<>>]

\* an onMisc that looks for the "<" that ends the id from the start of the
\* line, line.find("<")
TrecOnMiscFindFromStart(slf, ln, cs, r) ==
    IF StartsWith(ln, DOCNO)
    THEN LET p == Find(ln, "<", 0)
         IN  Handled([slf EXCEPT !.docid = Strip(PySlice(ln, 7, p)),
                                 !.textlines = <<>>],
                     "GotDocId", cs)
    ELSE Handled(slf, PyNone, cs)

\* an onMisc that starts the new document on top of the old text buffer
TrecOnMiscKeepingText(slf, ln, cs, r) ==
    IF StartsWith(ln, DOCNO)
    THEN LET p == Find(ln, "<", 7)
         IN  Handled([slf EXCEPT !.docid = Strip(PySlice(ln, 7, p))],
                     "GotDocId", cs)
    ELSE Handled(slf, PyNone, cs)

\* TrecParser.onMisc
TrecOnMisc(slf, ln, cs, r) ==
    IF StartsWith(ln, DOCNO)
    THEN LET p == Find(ln, "<", 7)
         IN  Handled([slf EXCEPT !.docid = Strip(PySlice(ln, 7, p)),
                                 !.textlines = <<>>],
                     "GotDocId", cs)
    ELSE Handled(slf, PyNone, cs)

\* an onGotDocId that misspells the name of the state it moves to
TrecOnGotDocIdMisspelt(slf, ln, cs, r) ==
    IF StartsWith(ln, TEXT) THEN Handled(slf, "text", cs)
    ELSE Handled(slf, PyNone, cs)

\* TrecParser.onGotDocId
TrecOnGotDocId(slf, ln, cs, r) ==
    IF StartsWith(ln, TEXT) THEN Handled(slf, "Text", cs)
    ELSE Handled(slf, PyNone, cs)

\* an onText that drops what the callback returns
TrecOnTextIgnoringStop(slf, ln, cs, r) ==
    IF StartsWith(ln, ETEXT)
    THEN Handled(slf, "Misc", Append(cs, [docid |-> slf.docid,
                                          text |-> Join(slf.textlines), r |-> r]))
    ELSE Handled([slf EXCEPT !.textlines = Append(@, ln)], PyNone, cs)

\* TrecParser.onText; r is what the callback returns if it is invoked
TrecOnText(slf, ln, cs, r) ==
    IF StartsWith(ln, ETEXT)
    THEN LET cs2 == Append(cs, [docid |-> slf.docid,
                                text |-> Join(slf.textlines), r |-> r])
         IN  IF r = "False" THEN Handled(slf, PyFalse, cs2)
             ELSE Handled(slf, "Misc", cs2)
    ELSE Handled([slf EXCEPT !.textlines = Append(@, ln)], PyNone, cs)

\* the lines the TREC files are made of
TrecLines ==
    { DOCNO \o <<" ", "D", "1", " ", "<", "/", "D", ">", NL>>,
      DOCNO \o <<"D", "2", NL>>,
      TEXT \o <<NL>>,
      ETEXT \o <<NL>>,
      <<"h", "i", NL>> }

\* the files: up to MaxLines lines
Files(lines, n) == UNION { [1..k -> lines] : k \in 0..n }

InitParser(files, start, slf) ==
    /\ fin \in files
    /\ pos = 0
    /\ line = Unbound
    /\ state = start
    /\ pc = "loop"
    /\ self = slf
    /\ calls = <<>>
    /\ stopped = FALSE
    /\ finishes = <<>>
    /\ heap = <<>> /\ aliased = FALSE /\ ret = <<>>

InitTrec == InitParser(Files(TrecLines, MaxLines), "Misc", NewTrecParser)

\* a pass of the loop in state Misc
TrecMisc ==
    /\ state = "Misc"
    /\ \E r \in CallbackReturns : Dispatch(TrecOnMisc(self, fin[pos + 1], calls, r))

TrecGotDocId ==
    /\ state = "GotDocId"
    /\ \E r \in CallbackReturns : Dispatch(TrecOnGotDocId(self, fin[pos + 1], calls, r))

TrecText ==
    /\ state = "Text"
    /\ \E r \in CallbackReturns : Dispatch(TrecOnText(self, fin[pos + 1], calls, r))

TrecFinish ==
    \E r \in CallbackReturns : AfterLoop(OnFinish(self, line, calls, r))

NextTrec == TrecMisc \/ TrecGotDocId \/ TrecText \/ TrecFinish

SpecTrec == InitTrec /\ [][NextTrec]_vars

(***************************************************************************)
(* TREC files of two documents, each with optional unrecognised lines      *)
(* before <DOCNO> and before <TEXT> and up to MaxBody lines of text        *)
(***************************************************************************)
DocnoD1 == DOCNO \o <<" ", "D", "1", " ", "<", "/", "D", ">", NL>>
DocnoD2 == DOCNO \o <<"D", "2", NL>>
Hi == <<"h", "i", NL>>

\* the sequences of at most n elements of s
SeqsUpTo(s, n) == UNION { [1..k -> s] : k \in 0..n }

\* the documents with the <DOCNO> line docno
TrecDocuments(docno) ==
    { pre \o <<docno>> \o mid \o <<TEXT \o <<NL>>>> \o body \o <<ETEXT \o <<NL>>>> :
        pre \in SeqsUpTo({Hi}, 1), mid \in SeqsUpTo({Hi}, 1),
        body \in SeqsUpTo({Hi, DocnoD2}, MaxBody) }

TrecTwoDocuments ==
    { d1 \o d2 : d1 \in TrecDocuments(DocnoD1), d2 \in TrecDocuments(DocnoD2) }

\* the short files of InitTrec and the files of two documents
InitTrecDocs ==
    InitParser(Files(TrecLines, MaxLines) \cup TrecTwoDocuments, "Misc", NewTrecParser)

SpecTrecDocs == InitTrecDocs /\ [][NextTrec]_vars

(***************************************************************************)
(* SMARTParser                                                             *)
(***************************************************************************)
\* SMARTParser.__init__ with sections = the allow list, or None
NewSMARTParser(sections) ==
    [docid |-> NoneStr, cats |-> NoneList, textlines |-> <<>>,
     sectionheader |-> NoneStr, allowedsections |-> sections]

\* an onMisc that starts the new document without emptying the text buffer
SMARTOnMiscKeepingText(slf, ln, cs, r) ==
    IF StartsWith(ln, <<".", "I">>)
    THEN Handled([slf EXCEPT !.docid = Strip(PyFrom(ln, 2)),
                             !.cats = NoneList,
                             !.sectionheader = NoneStr],
                 "GotDocId", cs)
    ELSE Handled(slf, PyNone, cs)

\* SMARTParser.onMisc
SMARTOnMisc(slf, ln, cs, r) ==
    IF StartsWith(ln, <<".", "I">>)
    THEN Handled([slf EXCEPT !.docid = Strip(PyFrom(ln, 2)),
                             !.textlines = <<>>,
                             !.cats = NoneList,
                             !.sectionheader = NoneStr],
                 "GotDocId", cs)
    ELSE Handled(slf, PyNone, cs)

\* an onGotDocId that gives the document up on a line other than .C
SMARTOnGotDocIdGivingUp(slf, ln, cs, r) ==
    IF StartsWith(ln, <<".", "C">>) THEN Handled(slf, "SawDotC", cs)
    ELSE Handled(slf, "Misc", cs)

\* SMARTParser.onGotDocId
SMARTOnGotDocId(slf, ln, cs, r) ==
    IF StartsWith(ln, <<".", "C">>) THEN Handled(slf, "SawDotC", cs)
    ELSE Handled(slf, PyNone, cs)

\* SMARTParser.onSawDotC
SMARTOnSawDotC(slf, ln, cs, r) ==
    Handled([slf EXCEPT !.cats = FindCats(ln, 1)], "SectionHeader", cs)

\* SMARTParser.onSectionHeader
SMARTOnSectionHeader(slf, ln, cs, r) ==
    Handled([slf EXCEPT !.sectionheader = PySlice(ln, 1, 2)], "SectionText", cs)

\* SMARTParser.doCallBack: the callback's invocations after it; what the
\* callback returns, r, is dropped
DoCallBack(slf, cs, r) ==
    IF Len(slf.textlines) # 0
    THEN Append(cs, [docid |-> slf.docid, cats |-> slf.cats,
                     text |-> Join(slf.textlines), r |-> r])
    ELSE cs

\* an onSectionText without the section filter
SMARTOnSectionTextUnfiltered(slf, ln, cs, r) ==
    IF StartsWith(ln, <<".">>)
    THEN IF StartsWith(ln, <<".", "I">>)
         THEN SMARTOnMisc(slf, ln, DoCallBack(slf, cs, r), r)
         ELSE SMARTOnSectionHeader(slf, ln, cs, r)
    ELSE Handled([slf EXCEPT !.textlines = Append(@, ln)], PyNone, cs)

\* an onSectionText that, on a section header line, only moves to the
\* state SectionHeader and leaves the line to no handler
SMARTOnSectionTextToHeaderState(slf, ln, cs, r) ==
    IF StartsWith(ln, <<".">>)
    THEN IF StartsWith(ln, <<".", "I">>)
         THEN SMARTOnMisc(slf, ln, DoCallBack(slf, cs, r), r)
         ELSE Handled(slf, "SectionHeader", cs)
    ELSE IF slf.allowedsections # NoneSet
            /\ slf.sectionheader \notin slf.allowedsections
    THEN Handled(slf, PyNone, cs)
    ELSE Handled([slf EXCEPT !.textlines = Append(@, ln)], PyNone, cs)

\* an onSectionText that, on a .I line, flushes and goes back to Misc
\* without handing the line to onMisc
SMARTOnSectionTextLosingDotI(slf, ln, cs, r) ==
    IF StartsWith(ln, <<".">>)
    THEN IF StartsWith(ln, <<".", "I">>)
         THEN Handled(slf, "Misc", DoCallBack(slf, cs, r))
         ELSE SMARTOnSectionHeader(slf, ln, cs, r)
    ELSE IF slf.allowedsections # NoneSet
            /\ slf.sectionheader \notin slf.allowedsections
    THEN Handled(slf, PyNone, cs)
    ELSE Handled([slf EXCEPT !.textlines = Append(@, ln)], PyNone, cs)

\* SMARTParser.onSectionText
SMARTOnSectionText(slf, ln, cs, r) ==
    IF StartsWith(ln, <<".">>)
    THEN IF StartsWith(ln, <<".", "I">>)
         THEN SMARTOnMisc(slf, ln, DoCallBack(slf, cs, r), r)
         ELSE SMARTOnSectionHeader(slf, ln, cs, r)
    ELSE IF slf.allowedsections # NoneSet
            /\ slf.sectionheader \notin slf.allowedsections
    THEN Handled(slf, PyNone, cs)
    ELSE Handled([slf EXCEPT !.textlines = Append(@, ln)], PyNone, cs)

\* SMARTParser.onFinish
SMARTOnFinish(slf, ln, cs, r) == Handled(slf, PyNone, DoCallBack(slf, cs, r))

\* the lines the SMART files are made of; the third one also serves as a
\* line of text
SMARTLines ==
    { <<".", "I", " ", "7", NL>>,
      <<".", "C", NL>>,
      <<"c", "1", " ", "1", " ", "c", "2", " ", "1", NL>>,
      <<".", "W", NL>> }

\* the values of the sections argument: None, ["W"], ["T", "C"]
SectionsArgs == {NoneSet, {<<"W">>}, {<<"T">>, <<"C">>}}

InitSMART ==
    \E sections \in SectionsArgs :
        InitParser(Files(SMARTLines, MaxSMARTLines), "Misc", NewSMARTParser(sections))

SMARTMisc ==
    /\ state = "Misc"
    /\ \E r \in CallbackReturns : Dispatch(SMARTOnMisc(self, fin[pos + 1], calls, r))

SMARTGotDocId ==
    /\ state = "GotDocId"
    /\ \E r \in CallbackReturns : Dispatch(SMARTOnGotDocId(self, fin[pos + 1], calls, r))

SMARTSawDotC ==
    /\ state = "SawDotC"
    /\ \E r \in CallbackReturns : Dispatch(SMARTOnSawDotC(self, fin[pos + 1], calls, r))

SMARTSectionHeader ==
    /\ state = "SectionHeader"
    /\ \E r \in CallbackReturns :
           Dispatch(SMARTOnSectionHeader(self, fin[pos + 1], calls, r))

SMARTSectionText ==
    /\ state = "SectionText"
    /\ \E r \in CallbackReturns :
           Dispatch(SMARTOnSectionText(self, fin[pos + 1], calls, r))

SMARTFinish ==
    \E r \in CallbackReturns : AfterLoop(SMARTOnFinish(self, line, calls, r))

NextSMART ==
    \/ SMARTMisc \/ SMARTGotDocId \/ SMARTSawDotC \/ SMARTSectionHeader
    \/ SMARTSectionText \/ SMARTFinish

SpecSMART == InitSMART /\ [][NextSMART]_vars

(***************************************************************************)
(* SMART files of two documents, .I 7 and .I 8, each with its .C line, a   *)
(* categories line and then section headers and text: up to MaxBody + 2    *)
(* lines in the first document, up to 2 in the second                      *)
(***************************************************************************)
DotI7 == <<".", "I", " ", "7", NL>>
DotI8 == <<".", "I", " ", "8", NL>>
DotC == <<".", "C", NL>>
DotW == <<".", "W", NL>>
CatsLine == <<"c", "1", " ", "1", " ", "c", "2", " ", "1", NL>>

\* the documents with the .I line doti and up to n lines after the
\* categories line
SMARTDocuments(doti, n) ==
    { <<doti, DotC, CatsLine>> \o body :
        body \in SeqsUpTo({DotW, DotC, CatsLine}, n) }

SMARTTwoDocuments ==
    { d1 \o d2 : d1 \in SMARTDocuments(DotI7, MaxBody + 2),
                 d2 \in SMARTDocuments(DotI8, 2) }

\* the files of InitSMART but the longest, and the files of two documents
InitSMARTDocs ==
    \E sections \in SectionsArgs :
        InitParser(Files(SMARTLines, MaxSMARTLines - 1) \cup SMARTTwoDocuments,
                   "Misc", NewSMARTParser(sections))

SpecSMARTDocs == InitSMARTDocs /\ [][NextSMART]_vars

(***************************************************************************)
(* Both parsers: a run is a TrecParser's or a SMARTParser's                *)
(***************************************************************************)
\* __introspect: the keys of self.stateFunctions, one per method whose name
\* starts with "on", the name without the "on"
TrecStateFunctions == {"Misc", "GotDocId", "Text", "Finish"}

SMARTStateFunctions ==
    {"Misc", "GotDocId", "SawDotC", "SectionHeader", "SectionText", "Finish"}

\* the parser object is a SMARTParser: it has the field cats
IsSMARTParser == "cats" \in DOMAIN self

\* self.stateFunctions of the parser object
StateFunctions == IF IsSMARTParser THEN SMARTStateFunctions ELSE TrecStateFunctions

InitParsers == InitTrecDocs \/ InitSMARTDocs

NextParsers ==
    \/ ~IsSMARTParser /\ NextTrec
    \/ IsSMARTParser /\ NextSMART

SpecParsers == InitParsers /\ [][NextParsers]_vars

(***************************************************************************)
(* Properties                                                              *)
(***************************************************************************)
Last(seq) == seq[Len(seq)]

\* the callback has returned False
StopSignalled == \E i \in 1..Len(calls) : calls[i].r = "False"

\* a factory made by inserting the objects of seq, in order, into a new one
RECURSIVE FreshWith(_)
FreshWith(seq) ==
    IF seq = <<>> THEN NewAtomFactory
    ELSE GetItem(FreshWith(SubSeq(seq, 1, Len(seq) - 1)), Last(seq)).af

\* C1: in every factory the two directions form a bijection: as many atoms
\* as objects, obj_to_atom[atom_to_obj[a-1]] = a for every atom a in
\* 1..size, distinct objects have distinct atoms, and get_object(af[o]) = o.
C1_Bijection ==
    \A r \in Refs :
        LET af == heap[r]
            n == Len(af.atom_to_obj)
        IN  /\ Cardinality(DOMAIN af.obj_to_atom) = n
            /\ \A a \in 1..n :
                   /\ Contains(af, af.atom_to_obj[a])
                   /\ af.obj_to_atom[af.atom_to_obj[a]] = a
            /\ \A o1 \in DOMAIN af.obj_to_atom, o2 \in DOMAIN af.obj_to_atom :
                   o1 # o2 => af.obj_to_atom[o1] # af.obj_to_atom[o2]
            /\ \A o \in DOMAIN af.obj_to_atom :
                   /\ GetItem(af, o).val \in 1..n
                   /\ GetObject(af, GetItem(af, o).val).err = "none"
                   /\ GetObject(af, GetItem(af, o).val).val = o

\* a third object has just been inserted into oldAF while newAF, locked,
\* holds two
C1_Witness ==
    /\ ret.op = "getitem" /\ ret.ref = "oldAF" /\ ret.val = 3
    /\ Len(heap["oldAF"].atom_to_obj) = 3
    /\ Len(heap["newAF"].atom_to_obj) = 2
    /\ heap["newAF"].locked
    /\ ~aliased

\* the step rebinds reference r to another factory object
Rebinds(r) == ret'.op \in {"new", "assign", "remove"} /\ ret'.dst = r

\* C2: on a locked factory a lookup of an absent object raises KeyError (a
\* LookupError) and changes nothing, a lookup of a present object returns
\* its atom; lock() locks, changes nothing else and nothing at all when the
\* factory is locked already; no call unlocks a locked factory.
C2_LockedFactory ==
    [][ /\ (ret'.op = "getitem" /\ heap[ret'.ref].locked) =>
               /\ heap' = heap
               /\ IF Contains(heap[ret'.ref], ret'.obj)
                  THEN /\ ret'.err = "none"
                       /\ ret'.val = heap[ret'.ref].obj_to_atom[ret'.obj]
                  ELSE ret'.err = "KeyError"
        /\ ret'.op = "lock" =>
               /\ heap'[ret'.ref] = [heap[ret'.ref] EXCEPT !.locked = TRUE]
               /\ heap[ret'.ref].locked => heap' = heap
        /\ \A r \in Refs :
               (heap[r].locked /\ ~Rebinds(r)) => heap'[r].locked
      ]_vars

\* a lookup of an absent object has just failed on a locked, non-empty
\* factory
C2_Witness ==
    /\ ret.op = "getitem" /\ ret.err = "KeyError"
    /\ heap[ret.ref].locked
    /\ Len(heap[ret.ref].atom_to_obj) >= 1
    /\ ~Contains(heap[ret.ref], ret.obj)

\* C3: get_object(a) and af(a) raise IndexError when a <= 0 or a > size
\* and return the object of atom a when 1 <= a <= size.
C3_OutOfRangeAtomFails ==
    ret.op \in {"get_object", "call"} =>
        LET lst == heap[ret.ref].atom_to_obj
        IN  IF ret.atom <= 0 \/ ret.atom > Len(lst)
            THEN ret.err = "IndexError"
            ELSE ret.err = "none" /\ ret.obj = lst[ret.atom]

\* C8: remove(objects) on any factory, locked or not, returns an unlocked
\* factory holding exactly the receiver's objects that are not in objects,
\* numbered 1..k in their first-seen order: the factory that inserting
\* them in that order into a new one gives.
C8_RemoveRenumbers ==
    [][ ret'.op = "remove" =>
            LET f == heap[ret'.ref]
                g == heap'[ret'.dst]
                kept == SelectSeq(f.atom_to_obj, LAMBDA o : o \notin ret'.objs)
            IN  /\ ~g.locked
                /\ g.atom_to_obj = kept
                /\ DOMAIN g.obj_to_atom = DOMAIN f.obj_to_atom \ ret'.objs
                /\ \A k \in 1..Len(kept) : g.obj_to_atom[kept[k]] = k
                /\ g = FreshWith(kept)
      ]_vars

\* remove({x}) on a locked factory of a, x, b has just returned a, b
C8_Witness ==
    /\ ret.op = "remove" /\ ret.objs = {"x"}
    /\ heap[ret.ref].atom_to_obj = <<"a", "x", "b">>
    /\ heap[ret.ref].locked
    /\ heap[ret.dst].atom_to_obj = <<"a", "b">>
    /\ heap[ret.dst].obj_to_atom["b"] = 2
    /\ ~heap[ret.dst].locked

\* C9: remove leaves its receiver as it was (size, both mappings, locked
\* flag) and returns another object than the receiver, so that a later
\* insertion into the returned factory changes that factory only.
C9_RemoveLeavesReceiver ==
    [][ /\ ret'.op = "remove" =>
               /\ heap'[ret'.ref] = heap[ret'.ref]
               /\ ~aliased'
        /\ (ret'.op = "getitem" /\ ~aliased) =>
               \A r \in Refs \ {ret'.ref} : heap'[r] = heap[r]
      ]_vars

\* remove({a, b}) has just returned a factory of x alone, numbered 1, and
\* the receiver still holds a, x, b as 1, 2, 3
C9_Witness ==
    /\ ret.op = "remove" /\ ret.objs = {"a", "b"}
    /\ heap[ret.ref].atom_to_obj = <<"a", "x", "b">>
    /\ heap[ret.ref].obj_to_atom["x"] = 2
    /\ heap[ret.ref].obj_to_atom["b"] = 3
    /\ heap[ret.dst].atom_to_obj = <<"x">>
    /\ heap[ret.dst].obj_to_atom["x"] = 1

\* C10 as claimed: convertAtom of a valid atom resolves it to its object in
\* oldAF and does lookup-or-insert in newAF: an object absent from an
\* unlocked newAF is inserted and its new atom returned, and the call
\* fails only when the object is absent from a locked newAF.
C10_ConvertAtomInserts ==
    [][ (/\ ret'.op = "convertAtom"
         /\ 1 <= ret'.atom
         /\ ret'.atom <= Len(heap[ret'.ref].atom_to_obj)) =>
            LET o == heap[ret'.ref].atom_to_obj[ret'.atom]
                new == heap[ret'.dst]
            IN  IF Contains(new, o)
                THEN ret'.err = "none" /\ ret'.val = new.obj_to_atom[o]
                ELSE IF new.locked
                THEN ret'.err # "none"
                ELSE /\ ret'.err = "none"
                     /\ Contains(heap'[ret'.dst], o)
                     /\ ret'.val = heap'[ret'.dst].obj_to_atom[o]
      ]_vars

\* C10 as amended: convertAtom never changes a factory; for a valid atom
\* it returns the atom newAF already has for the object, and fails with
\* IllegalOperation when newAF does not hold the object, locked or not.
C10_ConvertAtomLooksUp ==
    [][ ret'.op = "convertAtom" =>
            /\ heap' = heap
            /\ (1 <= ret'.atom /\ ret'.atom <= Len(heap[ret'.ref].atom_to_obj)) =>
                   LET o == heap[ret'.ref].atom_to_obj[ret'.atom]
                       new == heap[ret'.dst]
                   IN  IF Contains(new, o)
                       THEN ret'.err = "none" /\ ret'.val = new.obj_to_atom[o]
                       ELSE ret'.err = "IllegalOperation"
      ]_vars

\* convertAtom has just failed on an unlocked newAF that lacks the object
C10_Witness ==
    /\ ret.op = "convertAtom" /\ ret.err = "IllegalOperation"
    /\ ret.ref = "oldAF" /\ ret.dst = "newAF"
    /\ ~heap["newAF"].locked
    /\ 1 <= ret.atom /\ ret.atom <= Len(heap["oldAF"].atom_to_obj)
    /\ ~Contains(heap["newAF"], heap["oldAF"].atom_to_obj[ret.atom])
    /\ Len(heap["newAF"].atom_to_obj) >= 1

\* C4: once the TREC callback has returned False nothing more is read and
\* the callback is not invoked again: the loop is left at that </TEXT>
\* line.  After any other return value the parser goes on in state Misc.
C4_TrecStop ==
    [][ /\ StopSignalled => (pos' = pos /\ calls' = calls /\ pc' # "loop")
        /\ Len(calls') = Len(calls) + 1 =>
               /\ StartsWith(line', ETEXT)
               /\ IF Last(calls').r = "False"
                  THEN pc' = "broke"
                  ELSE pc' = "loop" /\ state' = "Misc"
      ]_vars

\* parse() has returned after a stop on the first record, with lines of
\* the file unread
C4_Witness ==
    /\ StopSignalled /\ Len(calls) = 1
    /\ pc = "returned"
    /\ pos + 2 <= Len(fin)

\* C5: once the SMART callback has returned False no further line is
\* processed and the callback is not invoked again.
C5_SMARTStop ==
    [][ StopSignalled => (pos' = pos /\ calls' = calls) ]_vars

\* C6: when the file is exhausted parse() invokes onFinish exactly once,
\* with the last line read, or an empty value if there was none, and
\* returns; onFinish is not invoked before.
C6_OnFinishOnce ==
    /\ pc \in {"loop", "broke"} => finishes = <<>>
    /\ (pc \in {"returned", "raised"} /\ ~stopped) =>
           /\ pc = "returned"
           /\ finishes = <<IF fin = <<>> THEN <<>> ELSE Last(fin)>>

\* C7: when a handler returns False parse() ends at once: no further line
\* is dispatched and onFinish is not invoked.
C7_StopSkipsOnFinish ==
    stopped => (finishes = <<>> /\ pc \in {"broke", "returned"})

\* the least element of a non-empty set of integers
Min(S) == CHOOSE m \in S : \A k \in S : m <= k

\* the index of the first line of f at or after i that starts with prefix,
\* 0 if there is none
FirstAt(f, i, prefix) ==
    LET S == {k \in i..Len(f) : StartsWith(f[k], prefix)}
    IN  IF S = {} THEN 0 ELSE Min(S)

\* the complete TREC documents of the lines f from line i on, each as the
\* indices of its <DOCNO> line (d), of the first and the last of the lines
\* strictly between its <TEXT> and </TEXT> lines (lo, hi) and of its
\* </TEXT> line (end)
RECURSIVE TrecDocsFrom(_, _)
TrecDocsFrom(f, i) ==
    LET d == FirstAt(f, i, DOCNO)
        t == IF d = 0 THEN 0 ELSE FirstAt(f, d + 1, TEXT)
        e == IF t = 0 THEN 0 ELSE FirstAt(f, t + 1, ETEXT)
    IN  IF e = 0 THEN <<>>
        ELSE <<[d |-> d, lo |-> t + 1, hi |-> e - 1, end |-> e]>>
             \o TrecDocsFrom(f, e + 1)

\* the text between the <DOCNO> that starts the line l and the next "<" (the
\* end of the line if there is none), without the white space around it
DocnoText(l) ==
    LET S == {k \in 8..Len(l) : l[k] = "<"}
        stop == IF S = {} THEN Len(l) + 1 ELSE Min(S)
    IN  Strip(SubSeq(l, 8, stop - 1))

\* the lines read so far
Read == SubSeq(fin, 1, pos)

\* C11: while the callback never signals stop, the TREC callback has been
\* invoked exactly once for every complete document read so far, in input
\* order, with the stripped text between <DOCNO> and the next "<" as docid
\* and the concatenation of the lines strictly between <TEXT> and </TEXT>
\* as text.
C11_TrecRecords ==
    ~StopSignalled =>
        LET docs == TrecDocsFrom(Read, 1)
        IN  /\ Len(calls) = Len(docs)
            /\ \A k \in 1..Len(docs) :
                   /\ calls[k].docid = DocnoText(fin[docs[k].d])
                   /\ calls[k].text = Join(SubSeq(fin, docs[k].lo, docs[k].hi))

\* parse() has returned after two documents, D1 with the text hi, hi and a
\* line before its <TEXT>, D2 with a text that holds a <DOCNO> line
C11_Witness ==
    /\ pc = "returned" /\ ~StopSignalled
    /\ Len(calls) = 2
    /\ calls[1].docid = <<"D", "1">> /\ calls[1].text = Hi \o Hi
    /\ calls[2].docid = <<"D", "2">> /\ calls[2].text = DocnoD2 \o Hi
    /\ fin[2] = Hi /\ fin[3] = TEXT \o <<NL>>

\* the indices lo..hi in order
IndexSeq(lo, hi) == [k \in 1..(IF hi >= lo THEN hi - lo + 1 ELSE 0) |-> lo + k - 1]

\* the greatest element of a non-empty set of integers
Max(S) == CHOOSE m \in S : \A k \in S : k <= m

\* the section code of the header line l: its second character, if any
SectionCode(l) == IF Len(l) >= 2 THEN <<l[2]>> ELSE <<>>

\* the indices, in order, of the lines of text of a SMART document that are
\* kept under the allow-set allowed: the lines in h + 1 .. e - 1 (h the
\* line after the categories line, the first section header) that do not
\* start with "." and whose section, given by the nearest line before them
\* that is h or starts with ".", is allowed
KeptText(f, h, e, allowed) ==
    SelectSeq(IndexSeq(h + 1, e - 1),
              LAMBDA k :
                  /\ ~StartsWith(f[k], <<".">>)
                  /\ \/ allowed = NoneSet
                     \/ SectionCode(f[Max({h} \cup {j \in (h + 1)..(k - 1) :
                                           StartsWith(f[j], <<".">>)})])
                            \in allowed)

\* the SMART documents of the lines f from line i on, each as the indices of
\* its .I line (d), of its categories line (c, the line after the first .C
\* line that follows d), of the .I line that ends it (e, Len(f) + 1 if there
\* is none) and of its kept lines of text (text)
RECURSIVE SMARTDocsFrom(_, _, _)
SMARTDocsFrom(f, i, allowed) ==
    LET d == FirstAt(f, i, <<".", "I">>)
        dotc == IF d = 0 THEN 0 ELSE FirstAt(f, d + 1, <<".", "C">>)
        e0 == IF dotc = 0 THEN 0 ELSE FirstAt(f, dotc + 3, <<".", "I">>)
        e == IF e0 = 0 THEN Len(f) + 1 ELSE e0
    IN  IF d = 0 THEN <<>>
        ELSE IF dotc = 0 THEN <<[d |-> d, c |-> 0, e |-> e, text |-> <<>>]>>
        ELSE <<[d |-> d, c |-> dotc + 1, e |-> e,
                text |-> KeptText(f, dotc + 2, e, allowed)]>>
             \o (IF e <= Len(f) THEN SMARTDocsFrom(f, e, allowed) ELSE <<>>)

\* the lines of f at the indices idx
LinesAt(f, idx) == [j \in 1..Len(idx) |-> f[idx[j]]]

\* the record the SMART callback is to get for the document doc of f
SMARTRecord(f, doc) ==
    [docid |-> Strip(SubSeq(f[doc.d], 3, Len(f[doc.d]))),
     cats |-> FindCats(f[doc.c], 1),
     text |-> Join(LinesAt(f, doc.text))]

\* the callback's invocations without what the callback returned
SMARTDelivered == [k \in 1..Len(calls) |->
                      [docid |-> calls[k].docid, cats |-> calls[k].cats,
                       text |-> calls[k].text]]

\* C12: the records delivered to the SMART callback are, in order, those of
\* the documents read so far that have kept text and are ended (by a later
\* .I line or by the end of the file), each with its docid, the categories
\* of the line after .C and the concatenation of exactly the text lines
\* whose section is in the allow-set (all of them when sections is None);
\* and the text buffer holds exactly the kept lines of the document in
\* progress, so a line of a filtered section is never buffered.
C12_SMARTRecords ==
    LET docs == SMARTDocsFrom(Read, 1, self.allowedsections)
        ended == SelectSeq(docs, LAMBDA doc :
                     doc.text # <<>> /\ (doc.e <= pos \/ pc = "returned"))
    IN  /\ SMARTDelivered = [k \in 1..Len(ended) |-> SMARTRecord(fin, ended[k])]
        /\ (pc = "loop" /\ docs # <<>>) =>
               self.textlines = LinesAt(fin, Last(docs).text)
        /\ (pc = "loop" /\ docs = <<>>) => self.textlines = <<>>

\* parse() has returned having delivered, under sections = ["W"], a record
\* with the categories c1, c2 and one line of text, from a document that
\* had a second line of text in section C
C12_Witness ==
    /\ pc = "returned"
    /\ self.allowedsections = {<<"W">>}
    /\ Len(fin) >= 7
    /\ SubSeq(fin, 1, 7) = <<DotI7, DotC, CatsLine, DotW, CatsLine, DotC, CatsLine>>
    /\ Len(calls) >= 1
    /\ calls[1].docid = <<"7">>
    /\ calls[1].cats = <<<<"c", "1">>, <<"c", "2">>>>
    /\ calls[1].text = CatsLine

\* C13: at the end of the stream the SMART callback is invoked exactly once
\* more, for the document in progress, if the text buffer is not empty and
\* not at all if it is empty; a record flushed by a .I line leaves the
\* buffer empty, so the terminal hook does not deliver it again, and there
\* are never more records than documents read.
C13_SMARTEndOfStream ==
    [][ /\ (pc = "loop" /\ pc' = "returned") =>
               IF self.textlines # <<>>
               THEN /\ Len(calls') = Len(calls) + 1
                    /\ SubSeq(calls', 1, Len(calls)) = calls
                    /\ Last(calls').docid = self.docid
                    /\ Last(calls').cats = self.cats
                    /\ Last(calls').text = Join(self.textlines)
               ELSE calls' = calls
        /\ (pc' = "loop" /\ calls' # calls) =>
               /\ Len(calls') = Len(calls) + 1
               /\ self.textlines # <<>>
               /\ self'.textlines = <<>>
        /\ pc' = "raised" => calls' = calls
        /\ Len(calls') <= Len(SMARTDocsFrom(SubSeq(fin, 1, pos'), 1,
                                            self.allowedsections))
      ]_vars

\* parse() has returned after two documents: 7, flushed by the line .I 8,
\* and 8, flushed at the end of the stream
C13_Witness ==
    /\ pc = "returned"
    /\ Len(calls) = 2
    /\ calls[1].docid = <<"7">>
    /\ calls[2].docid = <<"8">> /\ calls[2].text = CatsLine
    /\ ~StartsWith(Last(fin), <<".">>)
    /\ finishes = <<Last(fin)>>

\* C14: atoms are assigned in first-seen order and are stable.  As long as
\* a reference keeps denoting the same factory, no call changes the atom of
\* an object the factory knows or the object of an atom it has assigned; a
\* lookup of an unknown object in an unlocked factory returns size + 1 and
\* adds exactly that pair; a lookup of a known object returns the atom it
\* has and leaves the factory, its size included, as it was.
C14_AtomsStable ==
    [][ \A r \in Refs : ~Rebinds(r) =>
          LET old == heap[r]
              new == heap'[r]
          IN  /\ Len(new.atom_to_obj) >= Len(old.atom_to_obj)
              /\ \A k \in 1..Len(old.atom_to_obj) :
                     new.atom_to_obj[k] = old.atom_to_obj[k]
              /\ \A o \in DOMAIN old.obj_to_atom :
                     /\ o \in DOMAIN new.obj_to_atom
                     /\ new.obj_to_atom[o] = old.obj_to_atom[o]
              /\ (ret'.op = "getitem" /\ ret'.ref = r /\ ret'.err = "none") =>
                     IF Contains(old, ret'.obj)
                     THEN /\ ret'.val = old.obj_to_atom[ret'.obj]
                          /\ new = old
                     ELSE /\ ~old.locked
                          /\ ret'.val = Len(old.atom_to_obj) + 1
                          /\ new.atom_to_obj = Append(old.atom_to_obj, ret'.obj)
                          /\ new.obj_to_atom[ret'.obj] = ret'.val
                          /\ LenAF(new) = LenAF(old) + 1
      ]_vars

\* the factory has seen x, a, b in this order and a is looked up again: the
\* answer is 2, the factory's size is still 3
C14_Witness ==
    /\ ret.op = "getitem" /\ ret.err = "none"
    /\ ret.obj = "a" /\ ret.val = 2
    /\ heap[ret.ref].atom_to_obj = <<"x", "a", "b">>
    /\ ~heap[ret.ref].locked

\* the entries of av whose object, found in old, is known to new
Translatable(old, new, av) ==
    { a \in DOMAIN av : Contains(new, old.atom_to_obj[a]) }

\* C15: convertAtomVector never raises IllegalOperation, whatever the
\* vector; for a vector whose keys are atoms of oldAF it returns, and the
\* result has exactly one entry per entry of av whose object newAF knows,
\* under that object's atom in newAF and with the entry's value, and no
\* entry for the others.
C15_BulkTranslation ==
    [][ ret'.op = "convertAtomVector" =>
          LET old == heap[ret'.ref]
              new == heap[ret'.dst]
              av == ret'.objs
              res == ret'.val
              To(a) == new.obj_to_atom[old.atom_to_obj[a]]
          IN  /\ ret'.err # "IllegalOperation"
              /\ heap' = heap
              /\ DOMAIN av \subseteq 1..LenAF(old) =>
                     LET ok == Translatable(old, new, av)
                     IN  /\ ret'.err = "none"
                         /\ DOMAIN res = { To(a) : a \in ok }
                         /\ \A a \in ok : res[To(a)] = av[a]
                         /\ Cardinality(DOMAIN res) = Cardinality(ok)
      ]_vars

\* a vector over the atoms 1, 2, 3 of a, x, b was translated into a locked
\* factory that knows b and a as 1 and 2: x's entry was skipped, the two
\* others moved to the atoms 2 and 1
C15_Witness ==
    /\ ret.op = "convertAtomVector" /\ ret.err = "none"
    /\ ret.ref = "oldAF" /\ ret.dst = "newAF"
    /\ heap["oldAF"].atom_to_obj = <<"a", "x", "b">>
    /\ heap["newAF"].atom_to_obj = <<"b", "a">>
    /\ heap["newAF"].locked
    /\ DOMAIN ret.objs = {1, 2, 3}
    /\ DOMAIN ret.val = {1, 2}
    /\ ret.val[2] = ret.objs[1] /\ ret.val[1] = ret.objs[3]

\* C16: while parse() is in its loop the current state is one of the
\* states of the parser's machine (TrecParser: Misc, GotDocId, Text;
\* SMARTParser: Misc, GotDocId, SawDotC, SectionHeader, SectionText), each
\* of them a key of self.stateFunctions, so the lookup
\* self.stateFunctions[state] never fails.
C16_StateRegistered ==
    LET machine == IF IsSMARTParser
                   THEN {"Misc", "GotDocId", "SawDotC", "SectionHeader", "SectionText"}
                   ELSE {"Misc", "GotDocId", "Text"}
    IN  /\ machine \subseteq StateFunctions
        /\ pc \in {"loop", "broke", "returned", "raised"}
        /\ state \in machine

\* a SMARTParser about to look up the handler of SectionText for the fifth
\* line, having been through the four other states
C16_Witness ==
    /\ IsSMARTParser
    /\ pc = "loop" /\ pos = 4 /\ Len(fin) > 4
    /\ state = "SectionText"
    /\ calls = <<>>

\* the loop is about to hand a section header line (one that starts with
\* "." but not with ".I") to the handler of SectionText
HeaderInSectionText ==
    /\ IsSMARTParser /\ pc = "loop" /\ state = "SectionText" /\ pos < Len(fin)
    /\ StartsWith(fin[pos + 1], <<".">>)
    /\ ~StartsWith(fin[pos + 1], <<".", "I">>)

\* C17 as stated: in SectionText a line that starts with "." but not with
\* ".I" keeps docid, cats and the text buffer, and the next state is
\* SectionHeader.
C17_HeaderThenSectionHeader ==
    [][ HeaderInSectionText =>
          /\ self'.docid = self.docid
          /\ self'.cats = self.cats
          /\ self'.textlines = self.textlines
          /\ state' = "SectionHeader"
      ]_vars

\* C17, amended: in SectionText a line that starts with "." but not with
\* ".I" is handled as the section header in the same step: sectionheader
\* becomes its second character, docid, cats and the text buffer are kept,
\* no callback is made, and the next state is SectionText.
C17_HeaderThenSectionText ==
    [][ HeaderInSectionText =>
          /\ self' = [self EXCEPT !.sectionheader = PySlice(fin[pos + 1], 1, 2)]
          /\ calls' = calls
          /\ pc' = "loop"
          /\ state' = "SectionText"
      ]_vars

\* a document with text in its buffer met the header .W in SectionText:
\* the parser is in SectionText with section W and the text is still there
C17_Witness ==
    /\ IsSMARTParser /\ pc = "loop" /\ state = "SectionText"
    /\ pos >= 6 /\ line = DotW /\ fin[pos - 1] = CatsLine
    /\ self.sectionheader = <<"W">>
    /\ self.textlines = <<CatsLine>>
    /\ self.docid = <<"7">>
    /\ calls = <<>>

\* C18: in SectionText a line that starts with ".I" first hands the current
\* record to the callback if and only if the text buffer is not empty, and
\* is then handled as onMisc handles it: docid is the rest of the line,
\* stripped, cats, the text buffer and sectionheader are reset, and the
\* next state is GotDocId.
C18_DotIInSectionText ==
    [][ ( /\ IsSMARTParser /\ pc = "loop" /\ state = "SectionText"
          /\ pos < Len(fin)
          /\ StartsWith(fin[pos + 1], <<".", "I">>) ) =>
          /\ IF self.textlines # <<>>
             THEN /\ Len(calls') = Len(calls) + 1
                  /\ SubSeq(calls', 1, Len(calls)) = calls
                  /\ Last(calls').docid = self.docid
                  /\ Last(calls').cats = self.cats
                  /\ Last(calls').text = Join(self.textlines)
             ELSE calls' = calls
          /\ self'.docid = Strip(SubSeq(fin[pos + 1], 3, Len(fin[pos + 1])))
          /\ self'.cats = NoneList
          /\ self'.textlines = <<>>
          /\ self'.sectionheader = NoneStr
          /\ self'.allowedsections = self.allowedsections
          /\ pc' = "loop"
          /\ state' = "GotDocId"
      ]_vars

\* the line .I 8 met in SectionText flushed document 7 and started
\* document 8, whose .C line is now awaited
C18_Witness ==
    /\ IsSMARTParser /\ pc = "loop" /\ state = "GotDocId"
    /\ line = DotI8 /\ pos >= 6
    /\ Len(calls) = 1 /\ calls[1].docid = <<"7">>
    /\ self.docid = <<"8">>
    /\ self.textlines = <<>> /\ self.cats = NoneList

\* the prefix the current state waits for, in the states Misc and GotDocId
Awaited ==
    IF IsSMARTParser
    THEN IF state = "Misc" THEN <<".", "I">> ELSE <<".", "C">>
    ELSE IF state = "Misc" THEN DOCNO ELSE TEXT

\* C19: in the states Misc and GotDocId of both parsers a line that does
\* not start with the prefix the state waits for raises nothing, invokes
\* no callback and leaves the state and every field of the parser as they
\* were; the loop goes on.
C19_Tolerant ==
    [][ ( /\ pc = "loop" /\ pos < Len(fin)
          /\ state \in {"Misc", "GotDocId"}
          /\ ~StartsWith(fin[pos + 1], Awaited) ) =>
          /\ pc' = "loop"
          /\ pos' = pos + 1
          /\ state' = state
          /\ self' = self
          /\ calls' = calls
          /\ stopped' = stopped
      ]_vars

\* a TrecParser that has the id D1 and waits for <TEXT> has just read and
\* ignored the line hi
C19_Witness ==
    /\ ~IsSMARTParser /\ pc = "loop" /\ state = "GotDocId"
    /\ pos = 2 /\ fin[1] = DocnoD1 /\ line = Hi
    /\ self.docid = <<"D", "1">> /\ self.textlines = <<>>
    /\ calls = <<>>

\* the documents among the lines read so far, in input order, each as the
\* index of the line that set its docid (d), the docid that line gives and
\* the indices of its lines of text (text)
DocsRead ==
    IF IsSMARTParser
    THEN LET docs == SMARTDocsFrom(Read, 1, self.allowedsections)
         IN  [k \in 1..Len(docs) |->
                 [d |-> docs[k].d,
                  docid |-> Strip(SubSeq(fin[docs[k].d], 3, Len(fin[docs[k].d]))),
                  text |-> docs[k].text,
                  done |-> docs[k].text # <<>>
                           /\ (docs[k].e <= pos \/ pc = "returned")]]
    ELSE LET docs == TrecDocsFrom(Read, 1)
         IN  [k \in 1..Len(docs) |->
                 [d |-> docs[k].d,
                  docid |-> DocnoText(fin[docs[k].d]),
                  text |-> IndexSeq(docs[k].lo, docs[k].hi),
                  done |-> TRUE]]

\* the documents read so far that were to be delivered
DocsDone == SelectSeq(DocsRead, LAMBDA doc : doc.done)

\* every record delivered so far is the record of one document, the k-th
\* record that of the k-th document; a document's text is made of lines
\* that come, each once and in input order, after the line that set its
\* docid and before every later line that set a docid; so no line is in
\* two records
RecordsApart ==
    LET done == DocsDone
        starts == {DocsRead[i].d : i \in 1..Len(DocsRead)}
    IN  /\ Len(calls) = Len(done)
        /\ \A k \in 1..Len(done) :
               /\ calls[k].docid = done[k].docid
               /\ calls[k].text = Join(LinesAt(fin, done[k].text))
               /\ \A j \in 1..Len(done[k].text) :
                      /\ done[k].d < done[k].text[j]
                      /\ done[k].text[j] <= pos
                      /\ j > 1 => done[k].text[j - 1] < done[k].text[j]
                      /\ \A d \in starts :
                             d <= done[k].d \/ done[k].text[j] < d
        /\ \A k \in 1..(Len(done) - 1) : done[k].d < done[k + 1].d

\* the document whose docid line was the last to be read, as the index of
\* that line (d, 0 if there is none), the docid it gives and the indices
\* of the lines of text of that document read so far (text)
BufferDoc ==
    IF IsSMARTParser
    THEN LET docs == SMARTDocsFrom(Read, 1, self.allowedsections)
         IN  IF docs = <<>> THEN [d |-> 0, docid |-> NoneStr, text |-> <<>>]
             ELSE [d |-> Last(docs).d,
                   docid |-> Strip(SubSeq(fin[Last(docs).d], 3,
                                          Len(fin[Last(docs).d]))),
                   text |-> Last(docs).text]
    ELSE LET docs == TrecDocsFrom(Read, 1)
             e == IF docs = <<>> THEN 0 ELSE Last(docs).end
             d == FirstAt(Read, e + 1, DOCNO)
             t == IF d = 0 THEN 0 ELSE FirstAt(Read, d + 1, TEXT)
         IN  IF d # 0
             THEN [d |-> d, docid |-> DocnoText(fin[d]),
                   text |-> IF t = 0 THEN <<>> ELSE IndexSeq(t + 1, pos)]
             ELSE IF docs = <<>> THEN [d |-> 0, docid |-> NoneStr, text |-> <<>>]
             ELSE [d |-> Last(docs).d, docid |-> DocnoText(fin[Last(docs).d]),
                   text |-> IndexSeq(Last(docs).lo, Last(docs).hi)]

\* the text buffer holds lines of one document only, the one whose docid
\* the parser holds, each line once and in input order
BufferApart ==
    LET b == BufferDoc
    IN  /\ self.docid = b.docid
        /\ self.textlines = LinesAt(fin, b.text)
        /\ \A j \in 1..Len(b.text) :
               /\ b.d < b.text[j]
               /\ b.text[j] <= pos
               /\ j > 1 => b.text[j - 1] < b.text[j]

\* C20: text never leaks between records.  The text buffer holds lines of
\* one document only, each appended once, and the records delivered are,
\* in input order, those of distinct documents, each with the docid of its
\* own <DOCNO> / .I line and with lines read after that line and before
\* the next line that set a docid, so no line is in two records.
C20_NoLeak == RecordsApart /\ BufferApart

\* a TrecParser has delivered two documents whose texts are two different
\* lines hi of the file, each with its own docid
C20_Witness ==
    /\ ~IsSMARTParser /\ pc = "returned"
    /\ fin = <<DocnoD1, TEXT \o <<NL>>, Hi, ETEXT \o <<NL>>,
               DocnoD2, TEXT \o <<NL>>, Hi, ETEXT \o <<NL>>>>
    /\ Len(calls) = 2
    /\ calls[1].docid = <<"D", "1">> /\ calls[1].text = Hi
    /\ calls[2].docid = <<"D", "2">> /\ calls[2].text = Hi

====
